---- MODULE Spec2Model ----
(***************************************************************************)
(* PopForecast: the checkpointed enrichment runners                        *)
(*   src/src/scripts/enrich_with_musicbrainz.py  (track prominence, "mb")  *)
(*   src/src/scripts/enrich_with_lastfm.py       (artist context,   "lf")  *)
(*   src/src/scripts/enrich_with_wikidata.py     (entity resolution,"wd")  *)
(* and the catalog clients they call, as one state machine.  One behaviour *)
(* follows one runner over one work list through several process runs      *)
(* (start, optional kill, restart) against one cache file.                 *)
(*                                                                         *)
(* Strings are sequences of atoms (natural numbers).  An atom is either    *)
(* the blank, a separator word, or a name word; an upper-case spelling of  *)
(* a word is the word's atom plus UpperBase.                               *)
(***************************************************************************)
EXTENDS Integers, Sequences, FiniteSets, TLC

\* ------------------------------------------------------------------------
\* Bounds of the model
\* ------------------------------------------------------------------------
\* Longest work list.  Above the checkpoint interval, so that a checkpoint
\* happens inside the loop and keys are processed after it.
MaxTasks == 52
\* How often the process may be killed in one behaviour.
MaxKills == 1
\* How often the runner is started again after a run that completed.
MaxReruns == 1
\* Longest raw string given to split_collaborations on its own.
MaxLen == 5
\* Most recordings, and most releases in all of them, that the searches
\* return to the prominence extractor studied on its own.
MaxRecordings == 2
MaxReleases == 2
\* Largest track number and track count of a cached record given to the merge.
MaxTrack == 6
\* Longest column name of a table given to the column repair.
MaxColLen == 4
\* Most countries the linked-data query returns to the record builder.
MaxCountries == 2
\* Most rows of a base table given to the merge of whole tables.
MaxRows == 2

\* ------------------------------------------------------------------------
\* Program constants
\* ------------------------------------------------------------------------
\* save_interval = 50 (mb); "% 50" (lf, wd)
SaveInterval == 50

\* ------------------------------------------------------------------------
\* Strings
\* ------------------------------------------------------------------------
\* the blank " "
SP == 0
\* the word "||" of the composite key f"{artist} || {track}"
BAR == 1
\* the word "/"
SLASH == 2
\* the separator words of the regular expression of split_collaborations
SepFeat == 3
SepFeatDot == 4
SepFt == 5
SepFtDot == 6
SepAmp == 7
SepX == 8
SepWith == 9
SepVs == 10
SepVsDot == 11
SepPresents == 12
SepFeatures == 13
\* name words are the atoms NameBase+1, NameBase+2, ... (all lower case)
NameBase == 100
\* the upper-case spelling of atom a is a + UpperBase
UpperBase == 1000

Name(j) == NameBase + j

\* str.lower() on one atom, and on a string
LowerAtom(a) == IF a >= UpperBase THEN a - UpperBase ELSE a
Lower(s) == [k \in 1..Len(s) |-> LowerAtom(s[k])]

\* Python None / an optional value
None == <<>>
Some(v) == <<v>>

\* str.strip(): blanks removed at both ends
RECURSIVE LStrip(_)
LStrip(s) == IF s # <<>> /\ Head(s) = SP THEN LStrip(Tail(s)) ELSE s
RECURSIVE RStrip(_)
RStrip(s) == IF s # <<>> /\ s[Len(s)] = SP THEN RStrip(SubSeq(s, 1, Len(s) - 1)) ELSE s
Strip(s) == RStrip(LStrip(s))

\* re.sub(r'\s+', ' ', s): every run of blanks becomes one blank
RECURSIVE Collapse(_)
Collapse(s) ==
    IF Len(s) < 2 THEN s
    ELSE IF s[1] = SP /\ s[2] = SP THEN Collapse(Tail(s))
    ELSE <<s[1]>> \o Collapse(Tail(s))

\* re.sub(r'\s+', ' ', raw_string.strip())
Normalize(s) == Collapse(Strip(s))

\* ------------------------------------------------------------------------
\* split_collaborations (enrich_with_wikidata.py)
\* ------------------------------------------------------------------------
\* the words the regular expression accepts between blanks, in lower case:
\* feat feat. ft ft. & x with vs vs. presents features
SepWords == {SepFeat, SepFeatDot, SepFt, SepFtDot, SepAmp, SepX, SepWith,
             SepVs, SepVsDot, SepPresents, SepFeatures}

\* " / " in raw_string
ContainsSlash(s) ==
    \E k \in 1..(Len(s) - 2) : s[k] = SP /\ s[k + 1] = SLASH /\ s[k + 2] = SP

\* raw_string.split(" / "), scanning from the left; cur is the chunk so far
RECURSIVE SplitSlash(_, _)
SplitSlash(s, cur) ==
    IF s = <<>> THEN <<cur>>
    ELSE IF Len(s) >= 3 /\ s[1] = SP /\ s[2] = SLASH /\ s[3] = SP
         THEN <<cur>> \o SplitSlash(SubSeq(s, 4, Len(s)), <<>>)
         ELSE SplitSlash(Tail(s), Append(cur, Head(s)))

\* number of blanks s starts with
RECURSIVE BlankRun(_)
BlankRun(s) == IF s # <<>> /\ Head(s) = SP THEN 1 + BlankRun(Tail(s)) ELSE 0

\* length of the match of (?i)\s+<separator word>\s+ at the start of s, 0 if none
MatchLen(s) ==
    LET k == BlankRun(s) IN
    IF k >= 1 /\ Len(s) >= k + 2 /\ LowerAtom(s[k + 1]) \in SepWords /\ s[k + 2] = SP
    THEN k + 1 + BlankRun(SubSeq(s, k + 2, Len(s)))
    ELSE 0

\* re.split(<the separator pattern>, s): leftmost matches, not overlapping
RECURSIVE ReSplit(_, _)
ReSplit(s, cur) ==
    IF s = <<>> THEN <<cur>>
    ELSE LET m == MatchLen(s) IN
         IF m > 0 THEN <<cur>> \o ReSplit(SubSeq(s, m + 1, Len(s)), <<>>)
         ELSE ReSplit(Tail(s), Append(cur, Head(s)))

\* parts.extend(re.split(..., chunk)) for chunk in raw_string.split(" / ")
RECURSIVE SplitChunks(_)
SplitChunks(chunks) ==
    IF chunks = <<>> THEN <<>>
    ELSE ReSplit(Head(chunks), <<>>) \o SplitChunks(Tail(chunks))

\* the loop over parts: empty parts dropped, blanks normalised, duplicates
\* (compared in lower case) dropped, first spelling kept
RECURSIVE Dedupe(_, _, _)
Dedupe(parts, seen, out) ==
    IF parts = <<>> THEN out
    ELSE LET p == Head(parts)
             name == Collapse(Strip(p))
             key == Lower(name)
         IN  IF p = <<>> THEN Dedupe(Tail(parts), seen, out)
             ELSE IF key \notin seen
                  THEN Dedupe(Tail(parts), seen \cup {key}, Append(out, name))
                  ELSE Dedupe(Tail(parts), seen, out)

split_collaborations(raw_string) ==
    IF Strip(raw_string) = <<>> THEN <<>>
    ELSE LET parts == IF ContainsSlash(raw_string)
                      THEN SplitChunks(SplitSlash(raw_string, <<>>))
                      ELSE ReSplit(raw_string, <<>>)
         IN  Dedupe(parts, {}, <<>>)

\* ------------------------------------------------------------------------
\* Dictionaries (Python dict with string keys; json.dump / json.load keep
\* such a dictionary of records, numbers, strings and null as it is)
\* ------------------------------------------------------------------------
EmptyDict == [k \in {} |-> None]
\* d[k] = v
Put(d, k, v) == [x \in (DOMAIN d) \cup {k} |-> IF x = k THEN v ELSE d[x]]
\* d.get(k)
Get(d, k) == IF k \in DOMAIN d THEN d[k] ELSE None

\* ------------------------------------------------------------------------
\* The outside world: how each catalog answers a query.  A world fixes, for
\* each class of query (the parity of the query's first word), what the
\* service does; the same query gets the same answer throughout a behaviour.
\* ------------------------------------------------------------------------
Class(q) == IF q = <<>> THEN 0 ELSE LowerAtom(q[1]) % 2

\* musicbrainzngs.search_recordings: recordings with a usable release /
\* an empty recording-list (strict and loose search) / an exception
MbOutcomes == {"found", "empty", "error"}
\* requests.get to Last.fm: status 200 with a body / another status /
\* an exception (timeout, malformed body)
LfOutcomes == {"ok", "status", "error"}
\* search_musicbrainz, get_wikidata_qid_from_mb, enrich_from_wikidata:
\*   hit      accepted match, Wikidata link, country labels
\*   noqid    accepted match, no Wikidata link (or the link lookup raising)
\*   miss     no accepted match
\*   error    search_musicbrainz raising on every attempt
\*   badbody  accepted match, Wikidata link, status 200 with a binding
\*            that has no countryName value
\*   flaky    the search times out, then answers with a body that is not
\*            JSON, then answers as in hit
\*   status   the search answers with a status other than 200
WdOutcomes == {"hit", "noqid", "miss", "error", "badbody", "flaky", "status"}

Runners == {"mb", "lf", "wd"}
Outcomes(r) == CASE r = "mb" -> MbOutcomes [] r = "lf" -> LfOutcomes [] r = "wd" -> WdOutcomes
Worlds(r) == [0..1 -> Outcomes(r)]

\* ------------------------------------------------------------------------
\* Catalog clients
\* ------------------------------------------------------------------------
\* ------------------------------------------------------------------------
\* The prominence extractor (get_track_prominence after the searches).
\* Dates, track numbers and track counts are strings of characters, a
\* character being its code point; titles and types are strings.  A field
\* a release does not have is None.
\* ------------------------------------------------------------------------
\* the characters "0".."9"
Digits == 48..57
\* int() of one digit
DigitValue(c) == c - 48
\* the string "unknown" as characters
UnknownChars == <<117, 110, 107, 110, 111, 119, 110>>

\* a < b for Python strings: by code point, a proper prefix first
RECURSIVE StrLess(_, _)
StrLess(a, b) ==
    IF b = <<>> THEN FALSE
    ELSE IF a = <<>> THEN TRUE
    ELSE IF Head(a) # Head(b) THEN Head(a) < Head(b)
    ELSE StrLess(Tail(a), Tail(b))

\* rel.get(field, default)
Field(opt, default) == IF opt = None THEN default ELSE opt[1]

bad_types == {"Compilation", "Live", "Mixtape/Street", "DJ-mix", "Broadcast", "Interview"}
\* type_priority.get(x["type"], 3)
type_priority(t) ==
    CASE t = "Album" -> 0 [] t = "EP" -> 1 [] t = "Single" -> 2 [] OTHER -> 3

\* the four filters of the loop over the releases
Survives(rel) ==
    /\ Field(rel.status, "") = "Official"
    /\ \A k \in 1..Len(rel.secondary) : rel.secondary[k] \notin bad_types
    /\ Field(rel.type, "unknown") \in {"Album", "Single", "EP"}
    /\ Len(Field(rel.date, <<>>)) >= 4

\* every release of every recording, recordings and releases in order
RECURSIVE AllReleases(_)
AllReleases(recordings) ==
    IF recordings = <<>> THEN <<>>
    ELSE Head(recordings) \o AllReleases(Tail(recordings))

\* valid_releases, in the order of the appends
valid_releases(recordings) == SelectSeq(AllReleases(recordings), Survives)

\* the sort key (x["date"][:4], type_priority, x["date"]) of a survivor
SortKey(rel) ==
    [year |-> SubSeq(rel.date[1], 1, 4), prio |-> type_priority(rel.type[1]),
     date |-> rel.date[1]]
\* k1 < k2 for the tuples
KeyLess(k1, k2) ==
    IF k1.year # k2.year THEN StrLess(k1.year, k2.year)
    ELSE IF k1.prio # k2.prio THEN k1.prio < k2.prio
    ELSE StrLess(k1.date, k2.date)

\* mutant: the type priority is left out of the key
SortedFirst_NoPriority(valid) ==
    valid[CHOOSE k \in 1..Len(valid) :
              /\ \A l \in 1..Len(valid) : ~StrLess(valid[l].date[1], valid[k].date[1])
              /\ \A l \in 1..(k - 1) : StrLess(valid[k].date[1], valid[l].date[1])]
\* mutant: the first survivor met is taken, without sorting
SortedFirst_Unsorted(valid) == valid[1]
\* valid_releases.sort(key=...); valid_releases[0]: the sort is stable, so
\* the first element is the earliest of the elements with the least key
SortedFirst(valid) ==
    valid[CHOOSE k \in 1..Len(valid) :
              /\ \A l \in 1..Len(valid) : ~KeyLess(SortKey(valid[l]), SortKey(valid[k]))
              /\ \A l \in 1..(k - 1) : KeyLess(SortKey(valid[k]), SortKey(valid[l]))]

\* the absolute fallback: the first release of the first recording
Fallback(recordings) ==
    IF recordings # <<>> /\ recordings[1] # <<>> THEN Some(recordings[1][1]) ELSE None

\* the element of a set of one element (used to name a value computed once)
The(S) == CHOOSE x \in S : TRUE

\* best_release: None when the function returns the default result
best_release(recordings) ==
    IF recordings = <<>> THEN None
    ELSE The({IF valid # <<>> THEN Some(SortedFirst(valid)) ELSE Fallback(recordings) :
              valid \in {valid_releases(recordings)}})

\* ''.join(filter(str.isdigit, track_num_str))
DigitsOf(chars) == SelectSeq(chars, LAMBDA c : c \in Digits)
\* int() of a string of digits
RECURSIVE IntOfDigits(_)
IntOfDigits(ds) ==
    IF ds = <<>> THEN 0
    ELSE 10 * IntOfDigits(SubSeq(ds, 1, Len(ds) - 1)) + DigitValue(ds[Len(ds)])
\* int(s) succeeds
Convertible(chars) == chars # <<>> /\ \A k \in 1..Len(chars) : chars[k] \in Digits

\* the result dictionary of get_track_prominence
DefaultResult ==
    [release_title |-> None, release_date |-> None, release_type |-> "unknown",
     track_count |-> None, track_number |-> None, found |-> FALSE]

\* step 4, the target metrics of the chosen release; int(medium["track-count"])
\* raising leaves the fields set so far and found False
Metrics(rel) ==
    LET release_type == IF \E k \in 1..Len(rel.secondary) : rel.secondary[k] = "Compilation"
                        THEN "Compilation" ELSE Field(rel.type, "unknown")
        medium == rel.medium
        digits == IF medium # None /\ medium[1].number # None
                  THEN DigitsOf(medium[1].number[1]) ELSE <<>>
        track_number == IF digits # <<>> THEN Some(IntOfDigits(digits)) ELSE None
        has_count == medium # None /\ medium[1].count # None
        raises == has_count /\ ~Convertible(medium[1].count[1])
    IN  [release_title |-> Some(Field(rel.title, "unknown")),
         release_date |-> Some(Field(rel.date, UnknownChars)),
         release_type |-> release_type,
         track_count |-> IF has_count /\ ~raises
                         THEN Some(IntOfDigits(medium[1].count[1])) ELSE None,
         track_number |-> track_number,
         found |-> ~raises]

\* lines 43 to 121: the result for the recordings the searches returned
prominence(recordings) ==
    The({IF best = None THEN DefaultResult ELSE Metrics(best[1]) :
         best \in {best_release(recordings)}})

\* a release as musicbrainzngs returns it
Release(title, status, type, secondary, date, medium) ==
    [title |-> title, status |-> status, type |-> type, secondary |-> secondary,
     date |-> date, medium |-> medium]
Medium(number, count) == Some([number |-> number, count |-> count])
\* "2012-03-01", "10", "1"
Date20120301 == <<50, 48, 49, 50, 45, 48, 51, 45, 48, 49>>
Chars10 == <<49, 48>>
Chars1 == <<49>>

\* the recordings of the outcome "found": one recording with one official
\* album release named after the track, track 1 of 10
FoundRecordings(track_name) ==
    <<<<Release(Some(track_name), Some("Official"), Some("Album"), <<>>,
                Some(Date20120301), Medium(Some(Chars1), Some(Chars10)))>>>>

\* get_track_prominence(artist_name, track_name): every exception is caught,
\* an empty recording-list returns the default result
get_track_prominence(w, artist_name, track_name) ==
    LET o == w[Class(track_name)] IN
    IF o = "found" THEN prominence(FoundRecordings(track_name)) ELSE DefaultResult

\* LastFMClient.get_artist_info(artist_name)
get_artist_info(w, artist_name) ==
    LET o == w[Class(artist_name)] IN
    IF o = "ok"
    THEN [tags |-> <<"rock">>, listeners |-> Len(artist_name)]
    ELSE [tags |-> <<>>, listeners |-> 0]

\* what the artist search answers to attempt k of one call:
\*   match    200, an artist with score > 85
\*   nomatch  200, no artist or a score of at most 85
\*   status   a status other than 200
\*   timeout  requests.get raises
\*   garbled  200, resp.json() raises
SearchReply(o, k) ==
    CASE o = "error" -> "timeout"
      [] o = "flaky" -> (IF k = 1 THEN "timeout" ELSE IF k = 2 THEN "garbled" ELSE "match")
      [] o = "miss" -> "nomatch"
      [] o = "status" -> "status"
      [] OTHER -> "match"

\* the replies on which the body of search_musicbrainz raises
Raising(reply) == reply \in {"timeout", "garbled"}

\* stop=stop_after_attempt(3)
StopAfterAttempt == 3

\* mutant: a fourth attempt is made
RetryAgain_Four(reply, k) == Raising(reply) /\ k < StopAfterAttempt + 1
\* @retry: attempt k is followed by another one when it raised and the
\* ceiling is not reached
RetryAgain(reply, k) == Raising(reply) /\ k < StopAfterAttempt

\* the replies one call of the decorated search_musicbrainz gets, attempt
\* by attempt, from attempt k on
RECURSIVE SearchAttempts(_, _)
SearchAttempts(o, k) ==
    IF RetryAgain(SearchReply(o, k), k)
    THEN <<SearchReply(o, k)>> \o SearchAttempts(o, k + 1)
    ELSE <<SearchReply(o, k)>>

\* what one attempt does at the network: the request, and time.sleep(1.2)
\* unless requests.get raised
AttemptEvents(reply) == IF reply = "timeout" THEN <<"request">> ELSE <<"request", "sleep">>

\* the events of the attempts, wait_exponential between two attempts
RECURSIVE RetryEvents(_)
RetryEvents(replies) ==
    IF replies = <<>> THEN <<>>
    ELSE IF Len(replies) = 1 THEN AttemptEvents(replies[1])
    ELSE AttemptEvents(replies[1]) \o <<"backoff">> \o RetryEvents(Tail(replies))

\* search_musicbrainz(artist_name): raised is TRUE when the call (all its
\* attempts) ends in an exception, value is the returned record or None;
\* replies and events are what happened at the network
search_musicbrainz(w, artist_name) ==
    LET replies == SearchAttempts(w[Class(artist_name)], 1)
        last == replies[Len(replies)]
    IN  [raised |-> Raising(last),
         value |-> IF last = "match"
                   THEN Some([mbid |-> Lower(artist_name), name |-> artist_name,
                              mb_country |-> Some(<<Name(1)>>)])
                   ELSE None,
         replies |-> replies,
         events |-> RetryEvents(replies)]

\* get_wikidata_qid_from_mb(mbid)
get_wikidata_qid_from_mb(w, mbid) ==
    IF w[Class(mbid)] \in {"hit", "badbody", "flaky"} THEN Some(mbid) ELSE None

\* enrich_from_wikidata(qid): [r.get("countryName", {}).get("value") for r in
\* results if r], each element a string or None
enrich_from_wikidata(w, qid) ==
    IF w[Class(qid)] = "badbody" THEN <<None>>
    ELSE <<Some(<<Name(1)>>), Some(<<Name(2), SP>>)>>

\* list(dict.fromkeys([c.strip() for c in all_countries])), the elements
\* being strings
RECURSIVE Unique(_, _)
Unique(cs, out) ==
    IF cs = <<>> THEN out
    ELSE LET c == Strip(Head(cs)[1]) IN
         IF \E k \in 1..Len(out) : out[k] = c
         THEN Unique(Tail(cs), out)
         ELSE Unique(Tail(cs), Append(out, c))

\* " / ".join(final_list)
RECURSIVE Join(_)
Join(cs) ==
    IF cs = <<>> THEN <<>>
    ELSE IF Len(cs) = 1 THEN cs[1]
    ELSE cs[1] \o <<SP, SLASH, SP>> \o Join(Tail(cs))

\* fetch_and_build_record(artist_name): value is None or Some(record);
\* raised is TRUE when c.strip() meets an element that is None, which no
\* try block of the function covers; replies are those of the artist
\* search, events what the three request functions did at the network
\* (the link lookup sleeps after its request, the SPARQL query does not)
fetch_and_build_record(w, artist_name) ==
    LET mb == search_musicbrainz(w, artist_name) IN
    IF mb.raised \/ mb.value = None
    THEN [raised |-> FALSE, value |-> None, replies |-> mb.replies, events |-> mb.events]
    ELSE LET mb_data == mb.value[1]
             mbid == mb_data.mbid
             mb_country == mb_data.mb_country
             qid == get_wikidata_qid_from_mb(w, mbid)
             wd_countries == IF qid # None THEN enrich_from_wikidata(w, qid[1]) ELSE <<>>
             all_countries == (IF mb_country # None THEN <<mb_country>> ELSE <<>>)
                              \o wd_countries
             events == mb.events \o <<"request", "sleep">>
                       \o (IF qid # None THEN <<"request">> ELSE <<>>)
         IN  IF \E k \in 1..Len(all_countries) : all_countries[k] = None
             THEN [raised |-> TRUE, value |-> None, replies |-> mb.replies,
                   events |-> events]
             ELSE LET final_nationalities ==
                          IF all_countries # <<>>
                          THEN Some(Join(Unique(all_countries, <<>>)))
                          ELSE None
                  IN  [raised |-> FALSE,
                       value |-> Some([mbid |-> mbid, qid |-> qid,
                                       nationality |-> final_nationalities]),
                       replies |-> mb.replies, events |-> events]

\* what get_track_prominence does at the network: time.sleep(1.0), the
\* strict search and, when its recording-list is empty, the loose search
get_track_prominence_events(w, artist_name, track_name) ==
    IF w[Class(track_name)] = "empty" THEN <<"sleep", "request", "request">>
    ELSE <<"sleep", "request">>

\* what get_artist_info does at the network: one requests.get
get_artist_info_events(w, artist_name) == <<"request">>

\* the pacing record after the events evs: last is the latest of request
\* and sleep, unpaced tells whether a request has followed a request with
\* no pacing sleep between them (the wait of the retry is not a pacing sleep)
RECURSIVE Pace(_, _)
Pace(p, evs) ==
    IF evs = <<>> THEN p
    ELSE Pace(CASE Head(evs) = "request" ->
                       [last |-> "request", unpaced |-> p.unpaced \/ p.last = "request"]
                [] Head(evs) = "sleep" -> [last |-> "sleep", unpaced |-> p.unpaced]
                [] OTHER -> p,
              Tail(evs))
NoPacing == [last |-> "none", unpaced |-> FALSE]

\* ------------------------------------------------------------------------
\* Work lists
\* ------------------------------------------------------------------------
\* mb: tasks, the unique (artist_name, song_name) pairs.  The first two
\* pairs differ but give the same composite key.
MbTask(j) ==
    IF j = 1 THEN [artist_name |-> <<Name(1), SP, BAR, SP, Name(2)>>, song_name |-> <<Name(3)>>]
    ELSE IF j = 2 THEN [artist_name |-> <<Name(1)>>, song_name |-> <<Name(2), SP, BAR, SP, Name(3)>>]
    ELSE [artist_name |-> <<Name((j + 1) \div 2)>>, song_name |-> <<Name(j)>>]

\* lf: unique_artists
LfTask(j) == IF j % 5 = 0 THEN <<Name(j), SP, Name(j + 1)>> ELSE <<Name(j)>>

\* wd: unique_raw_inputs.  Every third entry is a collaboration whose second
\* name is itself an entry five places later and belongs to the other class
\* of queries, so that the catalog can reject the full string and its first
\* name and accept the second; some entries carry extra blanks.
WdTask(j) ==
    IF j % 3 = 1
    THEN IF j % 2 = 0 THEN <<Name(j), SP, SP, SepAmp, SP, Name(j + 5)>>
         ELSE <<Name(j), SP, SepFeatDot, SP, Name(j + 5)>>
    ELSE IF j % 3 = 2 THEN <<Name(j), SP>>
    ELSE <<Name(j)>>

TaskList(r, n) ==
    [j \in 1..n |-> CASE r = "mb" -> MbTask(j) [] r = "lf" -> LfTask(j) [] r = "wd" -> WdTask(j)]

TaskSizes == {0, 4, MaxTasks}

\* ------------------------------------------------------------------------
\* State
\* ------------------------------------------------------------------------
VARIABLES
    runner,                \* which script this behaviour is about
    tasks,                 \* tasks / unique_artists / unique_raw_inputs
    world,                 \* how the catalog answers
    config,                \* "ok", or "missing": the input file or the API key is absent
    pc,                    \* position of the process
    i,                     \* number of work-list entries the loop has finished
    results,               \* mb: results
    processed_since_save,  \* mb: processed_since_save
    enrichment_data,       \* lf: enrichment_data["artists"]
    new_reqs,              \* lf: new_reqs
    catalog,               \* wd: catalog["artists_catalog"]
    individual_tokens,     \* wd: individual_tokens of the entry being handled
    tix,                   \* wd: index of the next token
    inflight,              \* client calls issued and not yet returned
    disk,                  \* the cache file: None (absent) or Some(dictionary)
    loaded,                \* history: the dictionary this run started from
    calls,                 \* history: the client calls of this run, in order
    writes,                \* history: writes of the cache file in this run
    prev,                  \* history: how the previous run ended
    kills,                 \* history: kills so far
    reruns,                \* history: starts after a completed run so far
    pacing,                \* history: requests and pacing sleeps of this run
    last_call,             \* history: the latest client call that ended
    input,                 \* the argument of the function under study
    output                 \* its result, None before it is applied

vars == <<runner, tasks, world, config, pc, i, results, processed_since_save,
          enrichment_data, new_reqs, catalog, individual_tokens, tix, inflight,
          disk, loaded, calls, writes, prev, kills, reruns, pacing, last_call,
          input, output>>

mem == <<i, results, processed_since_save, enrichment_data, new_reqs, catalog,
         individual_tokens, tix>>
hist == <<loaded, calls, writes, prev, kills, reruns>>
env == <<runner, tasks, world, config>>
trace == <<pacing, last_call>>
pure == <<input, output>>

InitMachine ==
    /\ runner \in Runners
    /\ \E n \in TaskSizes : tasks = TaskList(runner, n)
    /\ world \in Worlds(runner)
    /\ pc = "init"
    /\ i = 0
    /\ results = EmptyDict
    /\ processed_since_save = 0
    /\ enrichment_data = EmptyDict
    /\ new_reqs = 0
    /\ catalog = EmptyDict
    /\ individual_tokens = <<>>
    /\ tix = 1
    /\ inflight = {}
    /\ disk = None
    /\ loaded = EmptyDict
    /\ calls = <<>>
    /\ writes = 0
    /\ prev = "none"
    /\ kills = 0
    /\ reruns = 0
    /\ pacing = NoPacing
    /\ last_call = None
    /\ input = None
    /\ output = None

Init == InitMachine /\ config = "ok"

\* the dictionary in the cache file, empty when the file is absent
DiskDict == IF disk = None THEN EmptyDict ELSE disk[1]

\* a process can be started when none is running (first start, after a
\* kill, after an uncaught exception); after a completed run only
\* MaxReruns times
CanStart == pc \in {"init", "dead", "crashed"} \/ (pc = "done" /\ reruns < MaxReruns)
StartHistory ==
    /\ loaded' = DiskDict
    /\ calls' = <<>>
    /\ writes' = 0
    /\ prev' = (CASE pc = "done" -> "done" [] pc = "dead" -> "killed"
                  [] pc = "crashed" -> "crashed" [] OTHER -> "none")
    /\ reruns' = (IF pc = "done" THEN reruns + 1 ELSE reruns)
    /\ pacing' = NoPacing
    /\ last_call' = None
    /\ UNCHANGED kills

\* ------------------------------------------------------------------------
\* enrich_with_musicbrainz.main
\* ------------------------------------------------------------------------
\* dict_key = f"{artist} || {track}"
DictKey(task) == task.artist_name \o <<SP, BAR, SP>> \o task.song_name

\* mutant: the existing file is not loaded
MbLoad_Empty == EmptyDict
\* results = {}; if DATA_OUT.exists(): results = json.load(f)
MbLoad == DiskDict

\* mutant: the test for an already fetched key is missing
InResults_Never(dict_key) == FALSE
\* if dict_key in results
InResults(dict_key) == dict_key \in DOMAIN results

\* mutant: ">" in place of ">="
MbCheckpointDue_Late(n) == n > SaveInterval
\* if processed_since_save >= save_interval, n the counter after its increment
MbCheckpointDue(n) == n >= SaveInterval

\* the start of main up to the loop
MbStart ==
    /\ runner = "mb" /\ CanStart
    \* if not DATA_IN.exists(): return
    /\ config = "ok"
    /\ results' = MbLoad
    /\ processed_since_save' = 0
    /\ i' = 0
    /\ pc' = "loop"
    /\ StartHistory
    /\ UNCHANGED <<env, pure, enrichment_data, new_reqs, catalog, individual_tokens, tix,
                   inflight, disk>>

\* if dict_key in results: continue
MbSkip ==
    /\ runner = "mb" /\ pc = "loop" /\ i < Len(tasks)
    /\ InResults(DictKey(tasks[i + 1]))
    /\ i' = i + 1
    /\ UNCHANGED <<env, pure, trace, pc, results, processed_since_save, enrichment_data, new_reqs,
                   catalog, individual_tokens, tix, inflight, disk, hist>>

\* mutant: the call is issued and the loop goes on without its result
MbCall_Async ==
    /\ runner = "mb" /\ pc = "loop" /\ i < Len(tasks)
    /\ ~InResults(DictKey(tasks[i + 1]))
    /\ inflight' = inflight \cup {DictKey(tasks[i + 1])}
    /\ calls' = Append(calls, [key |-> DictKey(tasks[i + 1]), pos |-> i + 1])
    /\ i' = i + 1
    /\ UNCHANGED <<env, pure, trace, pc, results, processed_since_save, enrichment_data, new_reqs,
                   catalog, individual_tokens, tix, disk, loaded, writes, prev, kills,
                   reruns>>

\* the call get_track_prominence(artist, track) is issued
MbCall ==
    /\ runner = "mb" /\ pc = "loop" /\ i < Len(tasks)
    /\ ~InResults(DictKey(tasks[i + 1]))
    /\ inflight' = inflight \cup {DictKey(tasks[i + 1])}
    /\ calls' = Append(calls, [key |-> DictKey(tasks[i + 1]), pos |-> i + 1])
    /\ pc' = "wait"
    /\ UNCHANGED <<env, pure, trace, mem, disk, loaded, writes, prev, kills, reruns>>

\* the call returns: results[dict_key] = mb_data, the counter, the checkpoint
MbReturn ==
    /\ runner = "mb" /\ pc = "wait"
    /\ LET task == tasks[i + 1]
           dict_key == DictKey(task)
           mb_data == get_track_prominence(world, task.artist_name, task.song_name)
           new_results == Put(results, dict_key, mb_data)
       IN  /\ results' = new_results
           /\ inflight' = inflight \ {dict_key}
           /\ pacing' = Pace(pacing, get_track_prominence_events(world, task.artist_name,
                                                                 task.song_name))
           /\ last_call' = Some([replies |-> <<world[Class(task.song_name)]>>,
                                 raised |-> FALSE, value |-> mb_data])
           /\ IF MbCheckpointDue(processed_since_save + 1)
              THEN /\ disk' = Some(new_results)
                   /\ processed_since_save' = 0
                   /\ writes' = writes + 1
              ELSE /\ processed_since_save' = processed_since_save + 1
                   /\ UNCHANGED <<disk, writes>>
    /\ i' = i + 1
    /\ pc' = "loop"
    /\ UNCHANGED <<env, pure, enrichment_data, new_reqs, catalog, individual_tokens, tix,
                   loaded, calls, prev, kills, reruns>>

\* mutant: the final save only when something is unsaved
MbFinalSave_IfDirty ==
    /\ runner = "mb" /\ pc = "loop" /\ i = Len(tasks)
    /\ IF processed_since_save > 0
       THEN /\ disk' = Some(results)
            /\ writes' = writes + 1
       ELSE UNCHANGED <<disk, writes>>
    /\ pc' = "done"
    /\ UNCHANGED <<env, pure, trace, mem, inflight, loaded, calls, prev, kills, reruns>>

\* the final save after the loop
MbFinalSave ==
    /\ runner = "mb" /\ pc = "loop" /\ i = Len(tasks)
    /\ disk' = Some(results)
    /\ writes' = writes + 1
    /\ pc' = "done"
    /\ UNCHANGED <<env, pure, trace, mem, inflight, loaded, calls, prev, kills, reruns>>

\* ------------------------------------------------------------------------
\* enrich_with_lastfm.main (phase 1)
\* ------------------------------------------------------------------------
\* mutant: the existing file is not loaded
LfLoad_Empty == EmptyDict
\* enrichment_data = {"artists": {}, ...} or json.load(OUTPUT_PATH)
LfLoad == DiskDict

\* if artist in enrichment_data["artists"]
InArtists(artist) == artist \in DOMAIN enrichment_data

\* if new_reqs % 50 == 0, n the counter after its increment
LfCheckpointDue(n) == n % SaveInterval = 0

LfStart ==
    /\ runner = "lf" /\ CanStart
    \* client = LastFMClient() finds its key
    /\ config = "ok"
    /\ enrichment_data' = LfLoad
    /\ new_reqs' = 0
    /\ i' = 0
    /\ pc' = "loop"
    /\ StartHistory
    /\ UNCHANGED <<env, pure, results, processed_since_save, catalog, individual_tokens, tix,
                   inflight, disk>>

\* if artist in enrichment_data["artists"]: continue
LfSkip ==
    /\ runner = "lf" /\ pc = "loop" /\ i < Len(tasks)
    /\ InArtists(tasks[i + 1])
    /\ i' = i + 1
    /\ UNCHANGED <<env, pure, trace, pc, results, processed_since_save, enrichment_data, new_reqs,
                   catalog, individual_tokens, tix, inflight, disk, hist>>

\* the call client.get_artist_info(artist) is issued
LfCall ==
    /\ runner = "lf" /\ pc = "loop" /\ i < Len(tasks)
    /\ ~InArtists(tasks[i + 1])
    /\ inflight' = inflight \cup {tasks[i + 1]}
    /\ calls' = Append(calls, [key |-> tasks[i + 1], pos |-> i + 1])
    /\ pc' = "wait"
    /\ UNCHANGED <<env, pure, trace, mem, disk, loaded, writes, prev, kills, reruns>>

\* the call returns: the store, new_reqs += 1, the checkpoint every 50
LfReturn ==
    /\ runner = "lf" /\ pc = "wait"
    /\ LET artist == tasks[i + 1]
           new_data == Put(enrichment_data, artist, get_artist_info(world, artist))
       IN  /\ enrichment_data' = new_data
           /\ inflight' = inflight \ {artist}
           /\ pacing' = Pace(pacing, get_artist_info_events(world, artist) \o <<"sleep">>)
           /\ last_call' = Some([replies |-> <<world[Class(artist)]>>, raised |-> FALSE,
                                 value |-> get_artist_info(world, artist)])
           /\ new_reqs' = new_reqs + 1
           /\ IF LfCheckpointDue(new_reqs + 1)
              THEN /\ disk' = Some(new_data)
                   /\ writes' = writes + 1
              ELSE UNCHANGED <<disk, writes>>
    /\ i' = i + 1
    /\ pc' = "loop"
    /\ UNCHANGED <<env, pure, results, processed_since_save, catalog, individual_tokens, tix,
                   loaded, calls, prev, kills, reruns>>

\* the write after phase 2
LfFinalSave ==
    /\ runner = "lf" /\ pc = "loop" /\ i = Len(tasks)
    /\ disk' = Some(enrichment_data)
    /\ writes' = writes + 1
    /\ pc' = "done"
    /\ UNCHANGED <<env, pure, trace, mem, inflight, loaded, calls, prev, kills, reruns>>

\* ------------------------------------------------------------------------
\* enrich_with_wikidata: process_raw_entry and main
\* ------------------------------------------------------------------------
\* mutant: every key is looked up again
NeedsProcessing_Always(cat, key) == TRUE
\* mutant: "not catalog.get(key)" in place of "key not in catalog"
NeedsProcessing_Falsy(cat, key) ==
    IF key \notin DOMAIN cat THEN TRUE
    ELSE IF cat[key] = None THEN TRUE
    ELSE cat[key][1].qid = None
\* key not in catalog or (isinstance(catalog.get(key), dict) and
\*                        catalog[key].get("qid") is None)
NeedsProcessing(cat, key) ==
    IF key \notin DOMAIN cat THEN TRUE
    ELSE cat[key] # None /\ cat[key][1].qid = None

\* Pass 2: the tokens to look at, none unless catalog.get(raw_clean) is None
Pass2Tokens(cat, raw_clean) ==
    IF Get(cat, raw_clean) = None THEN split_collaborations(raw_clean) ELSE <<>>

\* raw_clean of the entry being handled
RawClean == Normalize(tasks[i + 1])

\* catalog = json.load(CATALOG_FILE) or {"artists_catalog": {}}
WdLoad == DiskDict

\* mutant: i in place of i + 1
WdCheckpointDue_Index(idx) == idx % SaveInterval = 0
\* if (i + 1) % 50 == 0, idx the index i of enumerate
WdCheckpointDue(idx) == (idx + 1) % SaveInterval = 0

WdStart ==
    /\ runner = "wd" /\ CanStart
    \* INPUT_SONGS was read from the Last.fm file
    /\ config = "ok"
    /\ catalog' = WdLoad
    /\ individual_tokens' = <<>>
    /\ tix' = 1
    /\ i' = 0
    /\ pc' = "loop"
    /\ StartHistory
    /\ UNCHANGED <<env, pure, results, processed_since_save, enrichment_data, new_reqs,
                   inflight, disk>>

\* Pass 1, needs_processing: fetch_and_build_record(raw_clean) is issued
WdPass1Call ==
    /\ runner = "wd" /\ pc = "loop" /\ i < Len(tasks)
    /\ NeedsProcessing(catalog, RawClean)
    /\ inflight' = inflight \cup {RawClean}
    /\ calls' = Append(calls, [key |-> RawClean, pos |-> i + 1])
    /\ pc' = "wait1"
    /\ UNCHANGED <<env, pure, trace, mem, disk, loaded, writes, prev, kills, reruns>>

\* Pass 1, not needs_processing: straight to the test of pass 2
WdPass1Cached ==
    /\ runner = "wd" /\ pc = "loop" /\ i < Len(tasks)
    /\ ~NeedsProcessing(catalog, RawClean)
    /\ individual_tokens' = Pass2Tokens(catalog, RawClean)
    /\ tix' = 1
    /\ pc' = "tokens"
    /\ UNCHANGED <<env, pure, trace, i, results, processed_since_save, enrichment_data, new_reqs,
                   catalog, inflight, disk, hist>>

\* Pass 1, the call returns: a hit is stored and process_raw_entry returns;
\* otherwise the full string is marked None and pass 2 begins
WdPass1Return ==
    /\ runner = "wd" /\ pc = "wait1"
    /\ ~fetch_and_build_record(world, RawClean).raised
    /\ LET full_string_hit == fetch_and_build_record(world, RawClean).value IN
       IF full_string_hit # None
       THEN /\ catalog' = Put(catalog, RawClean, full_string_hit)
            /\ individual_tokens' = <<>>
       ELSE /\ catalog' = Put(catalog, RawClean, None)
            /\ individual_tokens' = Pass2Tokens(Put(catalog, RawClean, None), RawClean)
    /\ tix' = 1
    /\ inflight' = inflight \ {RawClean}
    /\ pacing' = Pace(pacing, fetch_and_build_record(world, RawClean).events)
    /\ last_call' = Some([replies |-> fetch_and_build_record(world, RawClean).replies,
                          raised |-> FALSE,
                          value |-> fetch_and_build_record(world, RawClean).value])
    /\ pc' = "tokens"
    /\ UNCHANGED <<env, pure, i, results, processed_since_save, enrichment_data, new_reqs,
                   disk, hist>>

\* fetch_and_build_record raises: nothing in process_raw_entry or main
\* catches it, the process ends with the traceback
WdRaise ==
    /\ runner = "wd" /\ pc \in {"wait1", "wait2"}
    /\ fetch_and_build_record(world, IF pc = "wait1" THEN RawClean
                                      ELSE individual_tokens[tix]).raised
    /\ LET call == fetch_and_build_record(world, IF pc = "wait1" THEN RawClean
                                                  ELSE individual_tokens[tix])
       IN  /\ pacing' = Pace(pacing, call.events)
           /\ last_call' = Some([replies |-> call.replies, raised |-> TRUE,
                                 value |-> None])
    /\ pc' = "crashed"
    /\ i' = 0
    /\ catalog' = EmptyDict
    /\ individual_tokens' = <<>>
    /\ tix' = 1
    /\ inflight' = {}
    /\ UNCHANGED <<env, pure, results, processed_since_save, enrichment_data, new_reqs,
                   disk, hist>>

\* Pass 2, a token that is not token_needs_processing
WdTokenSkip ==
    /\ runner = "wd" /\ pc = "tokens" /\ tix <= Len(individual_tokens)
    /\ ~NeedsProcessing(catalog, individual_tokens[tix])
    /\ tix' = tix + 1
    /\ UNCHANGED <<env, pure, trace, pc, i, results, processed_since_save, enrichment_data, new_reqs,
                   catalog, individual_tokens, inflight, disk, hist>>

\* Pass 2, token_needs_processing: fetch_and_build_record(token) is issued
WdTokenCall ==
    /\ runner = "wd" /\ pc = "tokens" /\ tix <= Len(individual_tokens)
    /\ NeedsProcessing(catalog, individual_tokens[tix])
    /\ inflight' = inflight \cup {individual_tokens[tix]}
    /\ calls' = Append(calls, [key |-> individual_tokens[tix], pos |-> i + 1])
    /\ pc' = "wait2"
    /\ UNCHANGED <<env, pure, trace, mem, disk, loaded, writes, prev, kills, reruns>>

\* Pass 2, the call returns: catalog[token] = fetch_and_build_record(token)
WdTokenReturn ==
    /\ runner = "wd" /\ pc = "wait2"
    /\ ~fetch_and_build_record(world, individual_tokens[tix]).raised
    /\ LET token == individual_tokens[tix] IN
       /\ catalog' = Put(catalog, token, fetch_and_build_record(world, token).value)
       /\ inflight' = inflight \ {token}
       /\ pacing' = Pace(pacing, fetch_and_build_record(world, token).events)
       /\ last_call' = Some([replies |-> fetch_and_build_record(world, token).replies,
                             raised |-> FALSE,
                             value |-> fetch_and_build_record(world, token).value])
    /\ tix' = tix + 1
    /\ pc' = "tokens"
    /\ UNCHANGED <<env, pure, i, results, processed_since_save, enrichment_data, new_reqs,
                   individual_tokens, disk, hist>>

\* process_raw_entry has returned: the checkpoint of main, every 50 entries
WdCheckpoint ==
    /\ runner = "wd" /\ pc = "tokens" /\ tix > Len(individual_tokens)
    /\ IF WdCheckpointDue(i)
       THEN /\ disk' = Some(catalog)
            /\ writes' = writes + 1
       ELSE UNCHANGED <<disk, writes>>
    /\ i' = i + 1
    /\ individual_tokens' = <<>>
    /\ tix' = 1
    /\ pc' = "loop"
    /\ UNCHANGED <<env, pure, trace, results, processed_since_save, enrichment_data, new_reqs,
                   catalog, inflight, loaded, calls, prev, kills, reruns>>

\* the final save of main
WdFinalSave ==
    /\ runner = "wd" /\ pc = "loop" /\ i = Len(tasks)
    /\ disk' = Some(catalog)
    /\ writes' = writes + 1
    /\ pc' = "done"
    /\ UNCHANGED <<env, pure, trace, mem, inflight, loaded, calls, prev, kills, reruns>>

\* ------------------------------------------------------------------------
\* The process is killed: its memory is gone, the cache file stays
\* ------------------------------------------------------------------------
Running == pc \in {"loop", "wait", "wait1", "tokens", "wait2"}

Kill ==
    /\ Running /\ kills < MaxKills
    /\ kills' = kills + 1
    /\ pc' = "dead"
    /\ i' = 0
    /\ results' = EmptyDict
    /\ processed_since_save' = 0
    /\ enrichment_data' = EmptyDict
    /\ new_reqs' = 0
    /\ catalog' = EmptyDict
    /\ individual_tokens' = <<>>
    /\ tix' = 1
    /\ inflight' = {}
    /\ UNCHANGED <<env, pure, trace, disk, loaded, calls, writes, prev, reruns>>

\* the steps of each script's process
MbStep == MbStart \/ MbSkip \/ MbCall \/ MbReturn \/ MbFinalSave
LfStep == LfStart \/ LfSkip \/ LfCall \/ LfReturn \/ LfFinalSave
WdStep ==
    \/ WdStart \/ WdPass1Call \/ WdPass1Cached \/ WdPass1Return
    \/ WdRaise \/ WdTokenSkip \/ WdTokenCall \/ WdTokenReturn \/ WdCheckpoint
    \/ WdFinalSave

Step == MbStep \/ LfStep \/ WdStep

Next == Step \/ Kill

Spec == Init /\ [][Next]_vars

\* ------------------------------------------------------------------------
\* The catalogs over time: between two runs of the entity-resolution runner
\* an outage begins, after which every request raises
\* ------------------------------------------------------------------------
Outage == [c \in 0..1 |-> "error"]
WorldChange ==
    /\ runner = "wd" /\ pc \in {"done", "dead", "crashed"}
    /\ world # Outage /\ world' = Outage
    /\ UNCHANGED <<runner, tasks, config, pure, trace, mem, inflight, disk, pc, hist>>

DriftInit == Init /\ runner = "wd"
DriftSpec == DriftInit /\ [][WdStep \/ Kill \/ WorldChange]_vars

\* ------------------------------------------------------------------------
\* Starts with a missing input
\* ------------------------------------------------------------------------
NoMemory ==
    /\ i' = 0
    /\ results' = EmptyDict
    /\ processed_since_save' = 0
    /\ enrichment_data' = EmptyDict
    /\ new_reqs' = 0
    /\ individual_tokens' = <<>>
    /\ tix' = 1

\* enrich_with_musicbrainz.main, DATA_IN absent: logger.error and return
MbStartFails ==
    /\ runner = "mb" /\ CanStart /\ config = "missing"
    /\ NoMemory /\ catalog' = EmptyDict
    /\ pc' = "done"
    /\ StartHistory
    /\ UNCHANGED <<env, pure, inflight, disk>>

\* enrich_with_lastfm.main, LASTFM_API_KEY absent: LastFMClient() raises
LfStartFails ==
    /\ runner = "lf" /\ CanStart /\ config = "missing"
    /\ NoMemory /\ catalog' = EmptyDict
    /\ pc' = "crashed"
    /\ StartHistory
    /\ UNCHANGED <<env, pure, inflight, disk>>

\* enrich_with_wikidata, the Last.fm file unreadable: the except of the
\* module sets INPUT_SONGS = [], main loads the catalog and loops over nothing
WdStartFails ==
    /\ runner = "wd" /\ CanStart /\ config = "missing"
    /\ NoMemory /\ catalog' = WdLoad
    /\ pc' = "empty"
    /\ StartHistory
    /\ UNCHANGED <<env, pure, inflight, disk>>

\* and the final save of main writes the catalog
WdEmptySave ==
    /\ runner = "wd" /\ pc = "empty"
    /\ disk' = Some(catalog)
    /\ writes' = writes + 1
    /\ pc' = "done"
    /\ UNCHANGED <<env, pure, trace, mem, inflight, loaded, calls, prev, kills, reruns>>

\* between two runs the input file or the key is lost
LoseConfig ==
    /\ config = "ok" /\ pc \in {"done", "dead", "crashed"}
    /\ config' = "missing"
    /\ UNCHANGED <<runner, tasks, world, pure, trace, mem, inflight, disk, pc, hist>>

StartFails == MbStartFails \/ LfStartFails \/ WdStartFails \/ WdEmptySave

StartupInit == InitMachine /\ config \in {"ok", "missing"}
StartupSpec == StartupInit /\ [][Next \/ StartFails \/ LoseConfig]_vars

\* the MusicBrainz and Last.fm processes run unless they are killed (every
\* client call returns: the clients catch their exceptions and the requests
\* carry a timeout), and the script is started again after it has stopped
FairSpec == Spec /\ WF_vars(MbStep) /\ WF_vars(LfStep)

\* ------------------------------------------------------------------------
\* Functions studied on their own: one behaviour draws an argument and
\* applies the function once; no process runs
\* ------------------------------------------------------------------------
machine == <<tasks, world, config, mem, pc, inflight, disk, hist, trace>>

NoProcess ==
    /\ tasks = <<>>
    /\ config = "ok"
    /\ world = [c \in 0..1 |-> "miss"]
    /\ pc = "init"
    /\ i = 0
    /\ results = EmptyDict
    /\ processed_since_save = 0
    /\ enrichment_data = EmptyDict
    /\ new_reqs = 0
    /\ catalog = EmptyDict
    /\ individual_tokens = <<>>
    /\ tix = 1
    /\ inflight = {}
    /\ disk = None
    /\ loaded = EmptyDict
    /\ calls = <<>>
    /\ writes = 0
    /\ prev = "none"
    /\ kills = 0
    /\ reruns = 0
    /\ pacing = NoPacing
    /\ last_call = None

\* the characters of the raw strings: blank, "/", "&", "FEAT.", a name in
\* lower case and the same name in upper case
SplitAlphabet == {SP, SLASH, SepAmp, SepFeatDot + UpperBase, Name(1), Name(1) + UpperBase}
Strings(alphabet, n) == UNION {[1..k -> alphabet] : k \in 0..n}

\* split_collaborations with its test of the argument's type: arg is
\* Some(string), or None for an argument that is not a string
split_collaborations_arg(arg) ==
    IF arg = None THEN <<>> ELSE split_collaborations(arg[1])

SplitInit ==
    /\ runner = "split"
    /\ input \in {None} \cup {Some(str) : str \in Strings(SplitAlphabet, MaxLen)}
    /\ output = None
    /\ NoProcess

Split ==
    /\ runner = "split" /\ output = None
    /\ output' = Some(split_collaborations_arg(input))
    /\ UNCHANGED <<runner, input, machine>>

SplitSpec == SplitInit /\ [][Split]_vars

\* the prominence extractor on its own: the releases the catalog can return
\* (dates and track fields are strings of character codes: "2011-12", "7A",
\* "12", "A", "x", "3", ...)
Date2012 == <<50, 48, 49, 50>>
ReleasePool ==
    {Release(Some("a"), Some("Official"), Some("Album"), <<>>, Some(Date20120301),
             Medium(Some(Chars1), Some(Chars10))),
     Release(Some("b"), Some("Official"), Some("Single"), <<>>, Some(Date2012),
             Medium(Some(<<55, 65>>), Some(<<49, 50>>))),
     Release(Some("c"), Some("Official"), Some("Album"), <<>>, Some(Date20120301), None),
     Release(Some("d"), Some("Official"), Some("EP"), <<>>, Some(<<50, 48, 49, 49, 45, 49, 50>>),
             Medium(None, Some(<<120>>))),
     Release(Some("e"), Some("Official"), Some("Album"), <<"Compilation">>, Some(<<50, 48, 49, 48>>),
             Medium(Some(<<65>>), None)),
     Release(Some("f"), Some("Bootleg"), Some("Album"), <<"Live">>, Some(<<50, 48, 48, 57>>),
             Medium(Some(<<51>>), Some(<<120>>))),
     Release(None, None, None, <<>>, Some(<<50, 48, 49>>), None),
     Release(Some("h"), Some("Official"), Some("Other"), <<>>, None,
             Medium(Some(<<51>>), Some(<<49, 50>>)))}

\* the release-lists of at most n releases
ReleaseLists(n) == UNION {[1..k -> ReleasePool] : k \in 0..n}
\* the recording-lists of at most nrec recordings and budget releases
RECURSIVE RecordingLists(_, _)
RecordingLists(budget, nrec) ==
    IF nrec = 0 THEN {<<>>}
    ELSE {<<>>} \cup
         UNION {{<<rl>> \o rest : rest \in RecordingLists(budget - Len(rl), nrec - 1)} :
                rl \in ReleaseLists(budget)}

\* the orderings of a sequence
PermsOf(seq) ==
    {[k \in 1..Len(seq) |-> seq[p[k]]] : p \in Permutations(1..Len(seq))}
\* the orderings of the releases inside each recording
RECURSIVE InnerOrders(_)
InnerOrders(recordings) ==
    IF recordings = <<>> THEN {<<>>}
    ELSE {<<h>> \o t : h \in PermsOf(Head(recordings)), t \in InnerOrders(Tail(recordings))}
\* the orderings of the recordings and of the releases inside them
Reorderings(recordings) == UNION {PermsOf(x) : x \in InnerOrders(recordings)}

ExtractInit ==
    /\ runner = "extract"
    /\ \E recordings \in RecordingLists(MaxReleases, MaxRecordings) :
           \E reordered \in Reorderings(recordings) :
               input = [recordings |-> recordings, reordered |-> reordered]
    /\ output = None
    /\ NoProcess

\* what the extractor chooses and returns for a recording-list
Extraction(recordings) ==
    [best |-> best_release(recordings), result |-> prominence(recordings)]

Extract ==
    /\ runner = "extract" /\ output = None
    /\ output' = Some([first |-> Extraction(input.recordings),
                       second |-> Extraction(input.reordered)])
    /\ UNCHANGED <<runner, input, machine>>

ExtractSpec == ExtractInit /\ [][Extract]_vars

\* ------------------------------------------------------------------------
\* build_musicbrainz_features.extract_logic on its own
\* ------------------------------------------------------------------------
\* key = f"{row['artist_name']} || {row['song_name']}"
MergeKey(row) == row.artist_name \o <<SP, BAR, SP>> \o row.song_name

\* round(x, 4) of the quotient n / c, in ten-thousandths (no quotient of the
\* numbers used lies half-way between two ten-thousandths)
Round4(n, c) == (2 * 10000 * n + c) \div (2 * c)

\* mutant: the value of the cache is taken as it is
OrOne_Raw(opt) == opt
\* data.get(...) or 1: a missing value, null and 0 give 1
OrOne(opt) == IF opt = None \/ opt[1] = 0 THEN Some(1) ELSE opt

\* the five derived columns of a row; a column is Some(value), None is null
extract_logic(mb_data, row) ==
    LET key == MergeKey(row)
        \* data = mb_data.get(key, {}); data.get("found")
        found == key \in DOMAIN mb_data /\ mb_data[key].found
        rel_type == IF found THEN Field(mb_data[key].release_type, "unknown") ELSE "unknown"
        mb_track_number == IF found THEN OrOne(mb_data[key].track_number) ELSE Some(1)
        mb_track_count == IF found THEN OrOne(mb_data[key].track_count) ELSE Some(1)
    IN  [mb_found |-> Some(IF found THEN 1 ELSE 0),
         mb_is_single |-> Some(IF found /\ rel_type \notin {"Single", "EP"} THEN 0 ELSE 1),
         mb_track_number |-> mb_track_number,
         mb_track_count |-> mb_track_count,
         mb_prominence_ratio |->
             IF ~found THEN Some(0)
             ELSE IF mb_track_count = None \/ mb_track_number = None THEN None
             ELSE IF mb_track_count[1] > 0
                  THEN Some(Round4(mb_track_number[1], mb_track_count[1]))
             ELSE Some(0)]

\* the records the track-prominence runner can have cached
CachedRecords ==
    [release_type : {None} \cup {Some(t) : t \in {"Album", "EP", "Single", "Compilation", "unknown"}},
     track_number : {None} \cup {Some(n) : n \in 0..MaxTrack},
     track_count : {None} \cup {Some(n) : n \in 0..MaxTrack},
     found : BOOLEAN]
\* the rows of the base table
MergeRows == {MbTask(j) : j \in 1..3}

MergeInit ==
    /\ runner = "merge"
    /\ \E row \in MergeRows :
           \E mb_data \in {EmptyDict} \cup
                   {Put(EmptyDict, DictKey(t), rec) : t \in MergeRows, rec \in CachedRecords} :
               input = [row |-> row, mb_data |-> mb_data]
    /\ output = None
    /\ NoProcess

Merge ==
    /\ runner = "merge" /\ output = None
    /\ output' = Some(extract_logic(input.mb_data, input.row))
    /\ UNCHANGED <<runner, input, machine>>

MergeSpec == MergeInit /\ [][Merge]_vars

\* ------------------------------------------------------------------------
\* fix_schema_drift.clean_redundant_columns on its own.  A column name is a
\* string of character codes, a column is its name and its values, a table
\* is the sequence of its columns.
\* ------------------------------------------------------------------------
\* "_x", "_y" and 'Unnamed: 0'
SuffixX == <<95, 120>>
SuffixY == <<95, 121>>
Unnamed0 == <<85, 110, 110, 97, 109, 101, 100, 58, 32, 48>>

\* col.endswith(suffix)
EndsWith(col, suffix) ==
    /\ Len(col) >= Len(suffix)
    /\ SubSeq(col, Len(col) - Len(suffix) + 1, Len(col)) = suffix
\* col.replace(old, ''): every occurrence of old, from the left, is removed
RECURSIVE Remove(_, _)
Remove(col, old) ==
    IF Len(col) < Len(old) THEN col
    ELSE IF SubSeq(col, 1, Len(old)) = old
         THEN Remove(SubSeq(col, Len(old) + 1, Len(col)), old)
    ELSE <<Head(col)>> \o Remove(Tail(col), old)

\* rename_map applied to a label
Renamed(col) == IF EndsWith(col, SuffixX) THEN Remove(col, SuffixX) ELSE col
\* df.rename(columns=rename_map)
Rename(df) == [k \in 1..Len(df) |-> [name |-> Renamed(df[k].name), values |-> df[k].values]]
\* cols_to_drop
cols_to_drop(df) == {df[k].name : k \in {l \in 1..Len(df) : EndsWith(df[l].name, SuffixY)}}
\* df.drop(columns=labels): every column with one of the labels goes
DropLabelled(df, labels) ==
    LET Keep(c) == c.name \notin labels IN SelectSeq(df, Keep)
\* lines 31 to 35
df_clean(df) == DropLabelled(DropLabelled(Rename(df), cols_to_drop(df)), {Unnamed0})
\* to_parquet refuses a table with two columns of the same name
Writable(df) == \A k, l \in 1..Len(df) : df[k].name = df[l].name => k = l
\* the outcome of the call: the file afterwards, and whether the call raised
clean_redundant_columns(df) ==
    IF Writable(df_clean(df)) THEN [raised |-> FALSE, file |-> df_clean(df)]
    ELSE [raised |-> TRUE, file |-> df]

\* the column names of the tables: strings of "_", "x", "y", and 'Unnamed: 0'
ColumnNames == Strings({95, 120, 121}, MaxColLen) \cup {Unnamed0}
\* the tables of one or two columns that a file can hold
Tables ==
    {<<[name |-> a, values |-> "first"]>> : a \in ColumnNames} \cup
    {<<[name |-> p[1], values |-> "first"], [name |-> p[2], values |-> "second"]>> :
        p \in {q \in ColumnNames \X ColumnNames : q[1] # q[2]}}

RepairInit ==
    /\ runner = "repair"
    /\ input \in Tables
    /\ output = None
    /\ NoProcess

Repair ==
    /\ runner = "repair" /\ output = None
    /\ output' = Some(clean_redundant_columns(input))
    /\ UNCHANGED <<runner, input, machine>>

RepairSpec == RepairInit /\ [][Repair]_vars

\* ------------------------------------------------------------------------
\* fetch_and_build_record after the artist search, on its own: the record
\* built from the search result and the replies of the two later requests
\* ------------------------------------------------------------------------
\* a reply is what a request function did: it raised on its last attempt,
\* or it returned value (get_wikidata_qid_from_mb: None or Some(qid);
\* enrich_from_wikidata: a list whose elements are None or Some(string))
Raise == [raised |-> TRUE, value |-> <<>>]
Return(value) == [raised |-> FALSE, value |-> value]
BuildRecord(mbid, mb_country, qid_reply, wd_reply) ==
    LET qid == IF qid_reply.raised THEN None ELSE qid_reply.value
        wd_countries == IF qid = None \/ wd_reply.raised THEN <<>> ELSE wd_reply.value
        \* if mb_country: an empty string counts as no country
        all_countries == (IF mb_country # None /\ mb_country # Some(<<>>)
                          THEN <<mb_country>> ELSE <<>>) \o wd_countries
    IN  IF \E k \in 1..Len(all_countries) : all_countries[k] = None
        THEN [raised |-> TRUE, value |-> None]
        ELSE [raised |-> FALSE,
              value |-> Some([mbid |-> mbid, qid |-> qid,
                              nationality |-> IF all_countries # <<>>
                                              THEN Some(Join(Unique(all_countries, <<>>)))
                                              ELSE None])]

\* the country strings of the replies: padded, repeated, blank and empty ones
CountryStrings ==
    {<<Name(1)>>, <<Name(1), SP>>, <<SP, Name(1)>>, <<Name(2)>>, <<SP>>, <<>>}
\* the lists enrich_from_wikidata can return
CountryLists ==
    UNION {[1..k -> {None} \cup {Some(c) : c \in CountryStrings}] : k \in 0..MaxCountries}

BuildInit ==
    /\ runner = "build"
    /\ \E mb_country \in {None} \cup {Some(c) : c \in CountryStrings} :
           \E reply \in {<<Raise, Raise>>, <<Return(None), Raise>>} \cup
                         {<<Return(Some(<<Name(9)>>)), wd>> :
                              wd \in {Raise} \cup {Return(l) : l \in CountryLists}} :
               input = [mbid |-> <<Name(9)>>, mb_country |-> mb_country,
                        qid_reply |-> reply[1], wd_reply |-> reply[2]]
    /\ output = None
    /\ NoProcess

Build ==
    /\ runner = "build" /\ output = None
    /\ output' = Some(BuildRecord(input.mbid, input.mb_country, input.qid_reply,
                                   input.wd_reply))
    /\ UNCHANGED <<runner, input, machine>>

BuildSpec == BuildInit /\ [][Build]_vars

\* ------------------------------------------------------------------------
\* build_musicbrainz_features.apply_mb_features on whole tables.  A table is
\* its column labels and its rows; a row is its index label and its values,
\* one for each column group.
\* ------------------------------------------------------------------------
BaseColumns == <<"artist_name", "song_name">>
DerivedColumns ==
    <<"mb_found", "mb_is_single", "mb_track_number", "mb_track_count", "mb_prominence_ratio">>

\* df.apply(extract_logic, axis=1): one row of derived values for each row,
\* under the same index; on a table without rows pandas does not build the
\* derived columns and returns a copy of the table
ApplyRows(df, mb_data) ==
    IF df.rows = <<>> THEN df
    ELSE [columns |-> DerivedColumns,
          rows |-> [k \in 1..Len(df.rows) |->
                       [index |-> df.rows[k].index,
                        values |-> <<extract_logic(mb_data, df.rows[k].values[1])>>]]]
\* pd.concat([df, mb_features], axis=1) of two tables with the same index
ConcatColumns(df, mb_features) ==
    [columns |-> df.columns \o mb_features.columns,
     rows |-> [k \in 1..Len(df.rows) |->
                  [index |-> df.rows[k].index,
                   values |-> df.rows[k].values \o mb_features.rows[k].values]]]
\* to_parquet refuses two columns with the same label
DistinctLabels(columns) == \A k, l \in 1..Len(columns) : columns[k] = columns[l] => k = l
\* lines 70 to 76: the file written, None when to_parquet raised
apply_mb_features(df, mb_data) ==
    The({IF DistinctLabels(df_final.columns) THEN Some(df_final) ELSE None :
         df_final \in {ConcatColumns(df, ApplyRows(df, mb_data))}})

\* the base tables: rows in any order, with an index that can repeat a label
BaseTables ==
    {[columns |-> BaseColumns,
      rows |-> [k \in 1..Len(pairs) |-> [index |-> labels[k], values |-> <<pairs[k]>>]]] :
        pairs \in UNION {[1..n -> MergeRows] : n \in 0..MaxRows},
        labels \in [1..MaxRows -> 0..1]}
\* the caches: empty, or one key with a found or a not found record
SomeCaches ==
    {EmptyDict} \cup
    {Put(EmptyDict, DictKey(t), rec) :
        t \in MergeRows,
        rec \in {r \in CachedRecords :
                     /\ r.release_type = Some("Album")
                     /\ r.track_number = Some(MaxTrack \div 2)
                     /\ r.track_count \in {None, Some(MaxTrack)}}}

MergeTableInit ==
    /\ runner = "mergetable"
    /\ \E df \in BaseTables : \E mb_data \in SomeCaches :
           input = [df |-> df, mb_data |-> mb_data]
    /\ output = None
    /\ NoProcess

MergeTable ==
    /\ runner = "mergetable" /\ output = None
    /\ output' = Some(apply_mb_features(input.df, input.mb_data))
    /\ UNCHANGED <<runner, input, machine>>

MergeTableSpec == MergeTableInit /\ [][MergeTable]_vars

\* ------------------------------------------------------------------------
\* Vocabulary of the properties
\* ------------------------------------------------------------------------
\* the in-memory dictionary of the runner
Cache == CASE runner = "mb" -> results [] runner = "lf" -> enrichment_data
           [] runner = "wd" -> catalog

\* the cache key of the work-list entry at position p
WorkKey(p) == CASE runner = "mb" -> DictKey(tasks[p]) [] runner = "lf" -> tasks[p]
                [] runner = "wd" -> Normalize(tasks[p])

\* d holds every key of e with e's value
Extends(d, e) == \A k \in DOMAIN e : k \in DOMAIN d /\ d[k] = e[k]

\* the keys of d a crash would lose: not in the file, or not with this value
Unsaved(d) == {k \in DOMAIN d : IF k \in DOMAIN DiskDict THEN DiskDict[k] # d[k] ELSE TRUE}

\* key was the subject of a client call of this run
Called(key) == \E c \in 1..Len(calls) : calls[c].key = key

\* a process exists (its memory is meaningful)
Alive == pc \in {"loop", "wait", "wait1", "tokens", "wait2", "done"}
Waiting == pc \in {"wait", "wait1", "wait2"}

\* the cache an uninterrupted mb run writes, from an absent file: every key
\* of the work list, with the answer for the first pair that gives the key
MbFirstTask(key) ==
    tasks[CHOOSE p \in 1..Len(tasks) :
              /\ DictKey(tasks[p]) = key
              /\ \A q \in 1..(p - 1) : DictKey(tasks[q]) # key]
MbFullRun ==
    [key \in {DictKey(tasks[p]) : p \in 1..Len(tasks)} |->
        get_track_prominence(world, MbFirstTask(key).artist_name,
                             MbFirstTask(key).song_name)]

\* ------------------------------------------------------------------------
\* C1  mb and lf: a work-list key present in the cache loaded at run start
\* (whatever its value) gets no client call in that run and keeps its value.
\* ------------------------------------------------------------------------
C1_LoadedKeysUntouched ==
    runner \in {"mb", "lf"} =>
        \A p \in 1..Len(tasks) :
            WorkKey(p) \in DOMAIN loaded =>
                /\ ~Called(WorkKey(p))
                /\ Alive => /\ WorkKey(p) \in DOMAIN Cache
                            /\ Cache[WorkKey(p)] = loaded[WorkKey(p)]

\* a restarted mb run that loaded a found=False record, made calls, and ended
C1_Witness ==
    /\ runner = "mb" /\ pc = "done" /\ calls # <<>>
    /\ \E p \in 1..Len(tasks) :
           WorkKey(p) \in DOMAIN loaded /\ ~loaded[WorkKey(p)].found

C3_NullNeverRequeried ==
    runner = "wd" =>
        \A k \in inflight : k \in DOMAIN catalog => catalog[k] # None

\* a later run: the full string was loaded as null, splits into itself alone,
\* and the token loop has passed it without a call
C3_Witness ==
    /\ runner = "wd" /\ pc = "tokens" /\ tix = 2
    /\ individual_tokens = <<RawClean>>
    /\ RawClean \in DOMAIN loaded /\ loaded[RawClean] = None
    /\ catalog[RawClean] = None
    /\ ~Called(RawClean)

C5_Resumable ==
    /\ [](runner = "mb" /\ Alive => Extends(results, DiskDict))
    /\ [][runner = "mb" => Extends(DiskDict', DiskDict)]_vars
    /\ [](runner = "mb" /\ pc = "done" => disk = Some(MbFullRun))
    /\ (runner = "mb" /\ pc = "dead") ~> (pc = "done")

\* a run restarted after a kill from a non-empty flush, which fetched the
\* remaining keys and ended
C5_Witness ==
    /\ runner = "mb" /\ prev = "killed" /\ pc = "done"
    /\ loaded # EmptyDict /\ calls # <<>>
    /\ disk = Some(MbFullRun)

\* ------------------------------------------------------------------------
\* C6  mb and lf: between two keys (and while a call is outstanding) at most
\* SaveInterval - 1 completed lookups are in memory and not in the file.
\* ------------------------------------------------------------------------
C6_AtMost49Unsaved ==
    (runner \in {"mb", "lf"} /\ pc \in {"loop", "wait"}) =>
        Cardinality(Unsaved(Cache)) <= SaveInterval - 1

\* mb: the checkpoint came with the 50th new key, one skipped key not counted
C6_Witness ==
    /\ runner = "mb" /\ pc = "loop" /\ prev = "none"
    /\ i = SaveInterval + 1 /\ Len(calls) = SaveInterval
    /\ writes = 1 /\ disk = Some(results)

C8_FinalWrite ==
    pc = "done" =>
        /\ disk = Some(Cache)
        /\ writes = 1 + (IF runner = "wd" THEN Len(tasks) ELSE Len(calls)) \div SaveInterval

\* a run over a non-empty list in which every key was already cached
C8_Witness ==
    /\ pc = "done" /\ runner = "lf" /\ Len(tasks) = MaxTasks
    /\ calls = <<>> /\ writes = 1 /\ disk = Some(enrichment_data)

\* ------------------------------------------------------------------------
\* C9  as stated: when a call for work key b starts, every work key a that
\* stands before b in the work list (both not in the loaded cache) has its
\* result in the cache.
\* ------------------------------------------------------------------------
C9_KeyOrder ==
    (Waiting /\ calls # <<>>) =>
        \A q \in 1..Len(tasks) :
            (WorkKey(q) = calls[Len(calls)].key /\ WorkKey(q) \notin DOMAIN loaded) =>
                \A p \in 1..(q - 1) :
                    (WorkKey(p) \notin DOMAIN loaded /\ WorkKey(p) # WorkKey(q))
                        => WorkKey(p) \in DOMAIN Cache

\* C9 as amended: entries are handled in work-list order, one call
\* outstanding at a time: the outstanding call is the latest one and belongs
\* to the entry being handled; calls are made in entry order; when a call
\* starts, every earlier entry has its result in the cache; and in mb and lf
\* each call is for the key of its own entry, so keys are called in
\* work-list order.
C9_EntryOrder ==
    /\ Cardinality(inflight) <= 1
    /\ inflight # {} =>
           /\ Waiting /\ calls # <<>>
           /\ inflight = {calls[Len(calls)].key}
           /\ calls[Len(calls)].pos = i + 1
    /\ \A c \in 1..(Len(calls) - 1) : calls[c].pos <= calls[c + 1].pos
    /\ Waiting => \A p \in 1..i : WorkKey(p) \in DOMAIN Cache
    /\ runner \in {"mb", "lf"} =>
           /\ \A c \in 1..Len(calls) : calls[c].key = WorkKey(calls[c].pos)
           /\ \A c \in 1..(Len(calls) - 1) : calls[c].pos < calls[c + 1].pos

\* wd: the outstanding call is for a token that is itself a later entry of
\* the work list, while an entry in between has not been looked up
C9_Witness ==
    /\ runner = "wd" /\ pc = "wait2"
    /\ \E q \in (i + 2)..Len(tasks) :
           /\ WorkKey(q) \in inflight
           /\ \E p \in (i + 2)..(q - 1) : WorkKey(p) \notin DOMAIN catalog

\* ------------------------------------------------------------------------
\* C10  no outcome of a client call ends the process, and a finished run has
\* every work-list key in the cache.
\* ------------------------------------------------------------------------
C10_NeverHalts ==
    /\ pc # "crashed"
    /\ pc = "done" => \A p \in 1..Len(tasks) : WorkKey(p) \in DOMAIN Cache

\* ------------------------------------------------------------------------
\* C11  no client entry point raises to its caller: every client call that
\* has ended returned (a record or the sentinel of its client).
\* ------------------------------------------------------------------------
C11_ClientsNeverRaise ==
    last_call # None =>
        /\ ~last_call[1].raised
        /\ runner = "mb" => last_call[1].value.found \in BOOLEAN
        /\ runner = "lf" => last_call[1].value.listeners >= 0

\* ------------------------------------------------------------------------
\* C12  between any two consecutive outbound requests of a run a pacing
\* sleep occurs.
\* ------------------------------------------------------------------------
C12_PacedAfterEveryRequest == ~pacing.unpaced

\* ------------------------------------------------------------------------
\* C13  as stated: a client call whose attempt fails (exception, status
\* other than 200, malformed body) is retried; a call ends on the first
\* attempt that succeeds, with its result, or after the third failed attempt,
\* with the sentinel.
\* ------------------------------------------------------------------------
TransientFailure(reply) == reply \in {"timeout", "garbled", "status", "error"}

IsSentinel(value) ==
    CASE runner = "mb" -> value = DefaultResult
      [] runner = "lf" -> value = [tags |-> <<>>, listeners |-> 0]
      [] OTHER -> value = None

C14_ExactMatchTerminates ==
    [][(/\ runner = "wd" /\ pc = "wait1" /\ pc' # "dead"
        /\ search_musicbrainz(world, RawClean).value # None)
       => /\ pc' = "tokens" /\ individual_tokens' = <<>>
          /\ DOMAIN catalog' = DOMAIN catalog \cup {RawClean}
          /\ catalog'[RawClean] # None]_vars

\* ------------------------------------------------------------------------
\* C15  wd, split: when the lookup of a full string is rejected, the step
\* that ends it stores the null marker and sets the tokens of the split;
\* the step that ends a token's lookup stores the token under its own key;
\* and no key is looked up twice for one entry of a run.
\* ------------------------------------------------------------------------
C15_SplitThenResolve ==
    /\ [][(/\ runner = "wd" /\ pc = "wait1" /\ pc' # "dead"
            /\ search_musicbrainz(world, RawClean).value = None)
           => /\ pc' = "tokens"
              /\ RawClean \in DOMAIN catalog' /\ catalog'[RawClean] = None
              /\ individual_tokens' = split_collaborations(RawClean)]_vars
    /\ [][(runner = "wd" /\ pc = "wait2" /\ pc' # "dead")
           => /\ pc' = "tokens"
              /\ individual_tokens[tix] \in DOMAIN catalog'
              /\ catalog'[individual_tokens[tix]]
                     = fetch_and_build_record(world, individual_tokens[tix]).value]_vars
    /\ [](runner = "wd" =>
             \A c, d \in 1..Len(calls) :
                 (calls[c].key = calls[d].key /\ calls[c].pos = calls[d].pos) => c = d)

\* ------------------------------------------------------------------------
\* C16  split_collaborations: no token is empty, no two tokens are equal
\* ignoring case, every token is the blank-normalised form of a piece of the
\* argument and consecutive tokens come from pieces in that order, an
\* argument without blanks (so without a padded slash or separator) is one
\* token, and an empty, blank or non-string argument gives no token.
\* ------------------------------------------------------------------------
Piece(str, a, b) == Normalize(SubSeq(str, a, b))
NoEmptyToken(toks) == \A k \in 1..Len(toks) : toks[k] # <<>>
NoCaseDuplicate(toks) ==
    \A k, l \in 1..Len(toks) : Lower(toks[k]) = Lower(toks[l]) => k = l
TokensFromPieces(str, toks) ==
    /\ \A k \in 1..Len(toks) :
           \E a \in 1..Len(str), b \in 1..Len(str) : Piece(str, a, b) = toks[k]
    /\ \A k \in 1..(Len(toks) - 1) :
           \E a, b, c, d \in 1..Len(str) :
               /\ b < c
               /\ Piece(str, a, b) = toks[k] /\ Piece(str, c, d) = toks[k + 1]
UnspacedIsWhole(str, toks) ==
    (str # <<>> /\ \A k \in 1..Len(str) : str[k] # SP) => toks = <<str>>
BlankGivesNone(arg, toks) ==
    (arg = None \/ \A k \in 1..Len(arg[1]) : arg[1][k] = SP) => toks = <<>>

C16_SplitTokens ==
    (runner = "split" /\ output # None) =>
        /\ NoEmptyToken(output[1])
        /\ NoCaseDuplicate(output[1])
        /\ BlankGivesNone(input, output[1])
        /\ input # None =>
               /\ UnspacedIsWhole(input[1], output[1])
               /\ TokensFromPieces(input[1], output[1])

\* ------------------------------------------------------------------------
\* C17  primary path: when some returned release is Official, has no
\* disallowed secondary type, has primary type Album, Single or EP and a
\* date of at least 4 characters, the chosen release is such a release and no
\* such release has a smaller key (year, type priority, full date).
\* ------------------------------------------------------------------------
Candidates == AllReleases(input.recordings)
IsSurvivor(rel) ==
    /\ rel.status = Some("Official")
    /\ \A k \in 1..Len(rel.secondary) : rel.secondary[k] \notin bad_types
    /\ rel.type \in {Some("Album"), Some("Single"), Some("EP")}
    /\ rel.date # None /\ Len(rel.date[1]) >= 4
Survivors == {Candidates[k] : k \in {l \in 1..Len(Candidates) : IsSurvivor(Candidates[l])}}

C17_PrimaryPathMinimal ==
    (runner = "extract" /\ output # None /\ Survivors # {}) =>
        /\ output[1].first.best # None
        /\ output[1].first.best[1] \in Survivors
        /\ \A rel \in Survivors :
               ~KeyLess(SortKey(rel), SortKey(output[1].first.best[1]))

\* the Single dated "2012" comes before the Album dated "2012-03-01" in the
\* release-list, and the Album is chosen
C17_Witness ==
    /\ runner = "extract" /\ output # None
    /\ Len(Candidates) = 2
    /\ Candidates[1].type = Some("Single") /\ Candidates[1].date = Some(Date2012)
    /\ Candidates[2].type = Some("Album") /\ Candidates[2].date = Some(Date20120301)
    /\ IsSurvivor(Candidates[1]) /\ IsSurvivor(Candidates[2])
    /\ output[1].first.best = Some(Candidates[2])

\* ------------------------------------------------------------------------
\* C18  as stated: two orderings of the same recordings and releases give
\* the same chosen release and the same record.
\* ------------------------------------------------------------------------
C18_OrderIndependent ==
    (runner = "extract" /\ output # None) => output[1].first = output[1].second

\* C18 as amended: when some release survives the filters, the key (year,
\* type priority, full date) of the chosen release is the same for every
\* ordering, and the chosen release and the record are the same when no two
\* different survivors share their key.
C18_KeyOrderIndependent ==
    (runner = "extract" /\ output # None /\ Survivors # {}) =>
        /\ output[1].first.best # None /\ output[1].second.best # None
        /\ SortKey(output[1].first.best[1]) = SortKey(output[1].second.best[1])
        /\ (\A r1, r2 \in Survivors : SortKey(r1) = SortKey(r2) => r1 = r2)
               => output[1].first = output[1].second

\* two survivors with the same key and different titles, in two orders:
\* each order chooses the release it meets first
C18_Witness ==
    /\ runner = "extract" /\ output # None
    /\ Len(Candidates) = 2 /\ Candidates[1] # Candidates[2]
    /\ IsSurvivor(Candidates[1]) /\ IsSurvivor(Candidates[2])
    /\ SortKey(Candidates[1]) = SortKey(Candidates[2])
    /\ output[1].first.best = Some(Candidates[1])
    /\ output[1].second.best = Some(Candidates[2])

\* ------------------------------------------------------------------------
\* C19  fallback: when no release survives the filters, the first release
\* of the first recording is used and reported with found = True; when the
\* first recording has no release the default record is returned.
\* ------------------------------------------------------------------------
C19_FallbackFirstRelease ==
    (runner = "extract" /\ output # None /\ Survivors = {}) =>
        IF input.recordings # <<>> /\ input.recordings[1] # <<>>
        THEN /\ output[1].first.best = Some(input.recordings[1][1])
             /\ output[1].first.result.found
        ELSE /\ output[1].first.best = None
             /\ output[1].first.result = DefaultResult

\* ------------------------------------------------------------------------
\* C20  merge: a row whose key is absent from the cache, or whose cached
\* record has found false, gets exactly mb_found 0, mb_is_single 1,
\* mb_track_number 1, mb_track_count 1, mb_prominence_ratio 0.0; no derived
\* column of any row is null, and a found record with a missing track number
\* or track count gets 1 for it.
\* ------------------------------------------------------------------------
NeutralDefaults ==
    [mb_found |-> Some(0), mb_is_single |-> Some(1), mb_track_number |-> Some(1),
     mb_track_count |-> Some(1), mb_prominence_ratio |-> Some(0)]
CachedForRow ==
    IF input.row.artist_name \o <<SP, BAR, SP>> \o input.row.song_name \in DOMAIN input.mb_data
    THEN Some(input.mb_data[input.row.artist_name \o <<SP, BAR, SP>> \o input.row.song_name])
    ELSE None

C20_MergeNeutralDefaults ==
    (runner = "merge" /\ output # None) =>
        /\ (CachedForRow = None \/ ~CachedForRow[1].found) => output[1] = NeutralDefaults
        /\ \A col \in DOMAIN output[1] : output[1][col] # None
        /\ (CachedForRow # None /\ CachedForRow[1].found) =>
               /\ output[1].mb_found = Some(1)
               /\ CachedForRow[1].track_number = None => output[1].mb_track_number = Some(1)
               /\ CachedForRow[1].track_count = None => output[1].mb_track_count = Some(1)

\* a found Album without track number and with 4 tracks: number 1, ratio 0.25
C20_Witness ==
    /\ runner = "merge" /\ output # None
    /\ CachedForRow # None /\ CachedForRow[1].found
    /\ CachedForRow[1].track_number = None /\ CachedForRow[1].track_count = Some(4)
    /\ CachedForRow[1].release_type = Some("Album")
    /\ output[1] = [mb_found |-> Some(1), mb_is_single |-> Some(0), mb_track_number |-> Some(1),
                    mb_track_count |-> Some(4), mb_prominence_ratio |-> Some(2500)]

\* ------------------------------------------------------------------------
\* C21  column repair: afterwards no column name ends with "_x" or "_y";
\* every column that ended with "_x" is there with only that suffix removed
\* and the same values; every column that ended with "_y" is gone; all other
\* columns are unchanged.
\* ------------------------------------------------------------------------
Unsuffixed(col) == SubSeq(col, 1, Len(col) - 2)
HasColumn(df, name, values) == \E k \in 1..Len(df) : df[k].name = name /\ df[k].values = values

C21_ColumnRepair ==
    (runner = "repair" /\ output # None) =>
        /\ \A k \in 1..Len(output[1].file) :
               /\ ~EndsWith(output[1].file[k].name, SuffixX)
               /\ ~EndsWith(output[1].file[k].name, SuffixY)
        /\ \A k \in 1..Len(input) :
               IF EndsWith(input[k].name, SuffixX)
               THEN HasColumn(output[1].file, Unsuffixed(input[k].name), input[k].values)
               ELSE IF EndsWith(input[k].name, SuffixY)
               THEN \A l \in 1..Len(output[1].file) : output[1].file[l].values # input[k].values
               ELSE HasColumn(output[1].file, input[k].name, input[k].values)
        /\ Len(output[1].file) <= Len(input)

\* ------------------------------------------------------------------------
\* C22  composite keys: the key the track-prominence runner stores for a
\* pair is the key the merge derives for a row with that pair, and two
\* different pairs never have the same key.
\* ------------------------------------------------------------------------
C22_KeysIdentifyPairs ==
    runner = "mb" =>
        \A p, q \in 1..Len(tasks) :
            /\ DictKey(tasks[p]) = MergeKey(tasks[p])
            /\ (DictKey(tasks[p]) \in DOMAIN results /\ MergeKey(tasks[q]) = DictKey(tasks[p]))
                   => tasks[q] = tasks[p]

\* ------------------------------------------------------------------------
\* C23  a missing input file or credential is fatal at startup: the runner
\* raises, and in that case issues no outbound request and writes no cache
\* file.
\* ------------------------------------------------------------------------
C23_StartupFatal ==
    [][(config = "missing" /\ config' = "missing") =>
           /\ pc' # pc => pc' = "crashed"
           /\ inflight' = {} /\ calls' = <<>>
           /\ disk' = disk /\ writes' = 0]_vars

\* ------------------------------------------------------------------------
\* C24  a field of the chosen release that cannot be extracted (a track
\* count that is no integer, a track number without digits) is left unset
\* alone: the record has found = True, its title, date and type, and every
\* track field that can be extracted.
\* ------------------------------------------------------------------------
HasDigit(chars) == \E k \in 1..Len(chars) : chars[k] \in 48..57
AllDigits(chars) == chars # <<>> /\ \A k \in 1..Len(chars) : chars[k] \in 48..57
Chosen == output[1].first.best[1]
Returned == output[1].first.result

C24_FieldFailureIsLocal ==
    (runner = "extract" /\ output # None /\ output[1].first.best # None) =>
        /\ Returned.found
        /\ Returned.release_title # None /\ Returned.release_date # None
        /\ (Chosen.medium # None /\ Chosen.medium[1].number # None
                /\ HasDigit(Chosen.medium[1].number[1])) => Returned.track_number # None
        /\ (Chosen.medium # None /\ Chosen.medium[1].count # None
                /\ AllDigits(Chosen.medium[1].count[1])) => Returned.track_count # None

\* ------------------------------------------------------------------------
\* C25  the release_type of every returned record is Album, EP, Single,
\* Compilation or unknown; it is Compilation only when the chosen release
\* has the secondary type Compilation, and then no release survived.
\* ------------------------------------------------------------------------
C25_ReleaseTypeDomain ==
    (runner = "extract" /\ output # None) =>
        /\ Returned.release_type \in {"Album", "EP", "Single", "Compilation", "unknown"}
        /\ Returned.release_type = "Compilation" =>
               /\ output[1].first.best # None
               /\ \E k \in 1..Len(Chosen.secondary) : Chosen.secondary[k] = "Compilation"
               /\ Survivors = {}

\* ------------------------------------------------------------------------
\* C29  a returned record with found = False is the default record: title,
\* date, track count and track number null, release_type "unknown".
\* ------------------------------------------------------------------------
C29_NotFoundIsDefault ==
    (runner = "extract" /\ output # None /\ ~Returned.found) =>
        /\ Returned.release_title = None /\ Returned.release_date = None
        /\ Returned.track_count = None /\ Returned.track_number = None
        /\ Returned.release_type = "unknown"

\* ------------------------------------------------------------------------
\* C26  the record built after the artist search: the nationality is the
\* primary country, then the linked-data countries in returned order, each
\* stripped, exact duplicates removed keeping the first, joined by " / ";
\* it is null exactly when neither source gave a country; a failed
\* identifier lookup or linked-data query keeps the record with its mbid.
\* ------------------------------------------------------------------------
\* the countries the two sources gave, in the order of the claim
GivenCountries ==
    (IF input.mb_country # None /\ input.mb_country # Some(<<>>)
     THEN <<input.mb_country>> ELSE <<>>)
    \o (IF ~input.qid_reply.raised /\ input.qid_reply.value # None /\ ~input.wd_reply.raised
        THEN input.wd_reply.value ELSE <<>>)
\* the stripped countries, and the positions of their first occurrences
StrippedCountries == [k \in 1..Len(GivenCountries) |-> Strip(GivenCountries[k][1])]
FirstOccurrence(k) == \A l \in 1..(k - 1) : StrippedCountries[l] # StrippedCountries[k]
RECURSIVE JoinedFrom(_)
JoinedFrom(k) ==
    IF k > Len(StrippedCountries) THEN <<>>
    ELSE IF ~FirstOccurrence(k) THEN JoinedFrom(k + 1)
    ELSE IF \E l \in (k + 1)..Len(StrippedCountries) : FirstOccurrence(l)
         THEN StrippedCountries[k] \o <<SP, SLASH, SP>> \o JoinedFrom(k + 1)
    ELSE StrippedCountries[k]

C26_NationalityMerge ==
    (runner = "build" /\ output # None) =>
        /\ ~output[1].raised
        /\ output[1].value # None
        /\ output[1].value[1].mbid = input.mbid
        /\ output[1].value[1].nationality = None <=> GivenCountries = <<>>
        /\ GivenCountries # <<>> => output[1].value[1].nationality = Some(JoinedFrom(1))

\* ------------------------------------------------------------------------
\* C27  the merge keeps row identity: the enriched table has the rows of the
\* base table, in the same order, with the same index and base values, and
\* the five derived columns after the base columns.
\* ------------------------------------------------------------------------
C27_RowIdentity ==
    (runner = "mergetable" /\ output # None) =>
        /\ output[1] # None
        /\ output[1][1].columns = input.df.columns \o DerivedColumns
        /\ Len(output[1][1].rows) = Len(input.df.rows)
        /\ \A k \in 1..Len(input.df.rows) :
               /\ output[1][1].rows[k].index = input.df.rows[k].index
               /\ output[1][1].rows[k].values[1] = input.df.rows[k].values[1]
               /\ Len(output[1][1].rows[k].values) = 2

\* ------------------------------------------------------------------------
\* C28  entity-resolution runner: a key that maps to a record with some
\* mbid keeps mapping to a record with that mbid, in the catalog of the
\* running process and in the catalog file.
\* ------------------------------------------------------------------------
KeepsRecords(before, after) ==
    \A key \in DOMAIN before :
        before[key] # None =>
            /\ key \in DOMAIN after
            /\ after[key] # None
            /\ after[key][1].mbid = before[key][1].mbid

C28_RecordsKept ==
    [][runner = "wd" =>
           /\ KeepsRecords(DiskDict, DiskDict')
           /\ (Running /\ pc' \notin {"dead", "crashed"}) => KeepsRecords(catalog, catalog')]_vars

\* ------------------------------------------------------------------------
\* C30  merge: mb_prominence_ratio of every row lies between 0.0 and 1.0
\* (0 and 10000 ten-thousandths), and mb_track_number <= mb_track_count.
\* ------------------------------------------------------------------------
C30_RatioInUnitRange ==
    (runner = "merge" /\ output # None) =>
        /\ output[1].mb_prominence_ratio # None
        /\ output[1].mb_prominence_ratio[1] >= 0
        /\ output[1].mb_prominence_ratio[1] <= 10000
        /\ output[1].mb_track_number[1] <= output[1].mb_track_count[1]

====
